---- MODULE Spec2Model ----
(***************************************************************************)
(* A model of the tint slog.Handler (lmittmann/tint).                      *)
(*                                                                         *)
(* Byte strings are sequences of one-character strings; an ANSI escape     *)
(* sequence is one element of such a sequence.  A handler is a record in   *)
(* the table `handlers`; the backing arrays of the groupsSlice fields live *)
(* in `heap`, so that Go's append (which writes into spare capacity of a   *)
(* shared backing array) is modelled as the runtime performs it.           *)
(***************************************************************************)
EXTENDS Integers, Sequences, FiniteSets

VARIABLES
    handlers,   \* table of handler objects, indexed by identity
    heap,       \* backing arrays of the groupsSlice fields
    mu,         \* mu[i]: the goroutine holding handler i's mutex, 0 when unlocked
    pc,         \* pc[p]: where goroutine p is inside Handle
    call,       \* call[p]: the Handle call goroutine p is running: handler,
                \* record, the buffer before (raw) and after the newline (buf),
                \* the calls it made of the rewrite function, and the pool
                \* buffer it holds (b, 0 when it holds none)
    ret,        \* ret[p]: what the latest Handle call of goroutine p returned
    writes,     \* writes[p]: the Write calls of goroutine p's latest Handle call
    origin,     \* origin[i]: the call that created handler i
    last,       \* the WithAttrs / WithGroup call of the latest step and its result
    lvl,        \* the latest Enabled / appendLevel call and its result
    structHandler,  \* a Handler struct of the first version (lazy init)
    pool,       \* the pool of line buffers
    old,        \* the latest Handle call on a handler of an earlier version
    colors      \* the LevelColor objects, the LevelColors values made from a
                \* mapping, and the latest call on them with its result

vars == <<handlers, heap, mu, pc, call, ret, writes, origin, last, lvl,
          structHandler, pool, old, colors>>

handlerVars == <<handlers, heap, mu, pc, call, ret, writes, origin, last, lvl,
                 structHandler, pool, old>>

---------------------------------------------------------------------------
(* Bounds of the model *)

MaxHandlers == 2        \* handler objects in Spec
MaxDerived == 6         \* handler objects in SpecDerive
MaxChain == 5           \* handler objects in SpecChain
MaxLevelAbs == 12       \* levels range over -MaxLevelAbs .. MaxLevelAbs

Procs == {1, 2}

---------------------------------------------------------------------------
(* slog constants *)

LevelDebug == -4
LevelInfo == 0
LevelWarn == 4
LevelError == 8

TimeKey == <<"t", "i", "m", "e">>
LevelKey == <<"l", "e", "v", "e", "l">>
SourceKey == <<"s", "o", "u", "r", "c", "e">>
MessageKey == <<"m", "s", "g">>

(* ANSI modes *)
ansiReset == "ESC[0m"
ansiFaint == "ESC[2m"
ansiResetFaint == "ESC[22m"
ansiBrightRed == "ESC[91m"
ansiBrightGreen == "ESC[92m"
ansiBrightYellow == "ESC[93m"
ansiBrightRedFaint == "ESC[91;2m"

keyErr == <<"e", "r", "r">>

---------------------------------------------------------------------------
(* Attributes and values.  Every attribute has the same fields so that any *)
(* two of them can be compared: kind is one of "string", "int", "time",    *)
(* "any", "err" (a tintError) and "group".                                 *)

Attr(key, kind, str, num, grp) ==
    [key |-> key, kind |-> kind, str |-> str, num |-> num, grp |-> grp]

StringAttr(key, s) == Attr(key, "string", s, 0, <<>>)
IntAttr(key, n) == Attr(key, "int", <<>>, n, <<>>)
TimeAttr(key, t) == Attr(key, "time", <<>>, t, <<>>)
AnyAttr(key, s) == Attr(key, "any", s, 0, <<>>)
GroupAttr(key, as) == Attr(key, "group", <<>>, 0, as)
Err(msg) == Attr(keyErr, "err", msg, 0, <<>>)
EmptyAttr == Attr(<<>>, "any", <<"<", "n", "i", "l", ">">>, 0, <<>>)

(* Err(nil) is slog.Any(keyErr, tintError{nil}): the Error method of the   *)
(* tintError dereferences the nil error it embeds.  NilDeref stands for    *)
(* that call's outcome; a buffer that holds it was being assembled when    *)
(* the goroutine panicked, and ends there.                                 *)
NilDeref == "panic: nil pointer dereference"
ErrNil == Attr(keyErr, "err", <<NilDeref>>, 0, <<>>)

Panicked(buf) == \E k \in DOMAIN buf : buf[k] = NilDeref

RECURSIVE UpToPanic(_)
UpToPanic(buf) ==
    IF buf = <<>> \/ Head(buf) = NilDeref THEN <<>>
    ELSE <<Head(buf)>> \o UpToPanic(Tail(buf))

---------------------------------------------------------------------------
(* strconv *)

DigitChars == <<"0", "1", "2", "3", "4", "5", "6", "7", "8", "9">>

RECURSIVE UDigits(_)
UDigits(n) ==
    IF n < 10 THEN <<DigitChars[n + 1]>>
    ELSE UDigits(n \div 10) \o <<DigitChars[(n % 10) + 1]>>

AppendInt(buf, n) ==
    IF n < 0 THEN buf \o <<"-">> \o UDigits(-n) ELSE buf \o UDigits(n)

(* unicode.IsSpace / IsPrint over the characters the model uses *)
IsSpace(c) == c \in {" ", "\n", "\t"}
IsPrint(c) == c \notin {"\n", "\t"}

needsQuoting(s) ==
    \E i \in 1..Len(s) :
        IsSpace(s[i]) \/ s[i] = "\"" \/ s[i] = "=" \/ ~IsPrint(s[i])

RECURSIVE QuoteChars(_)
QuoteChars(s) ==
    IF s = <<>> THEN <<>>
    ELSE (CASE Head(s) = "\"" -> <<"\\", "\"">>
            [] Head(s) = "\\" -> <<"\\", "\\">>
            [] Head(s) = "\n" -> <<"\\", "n">>
            [] Head(s) = "\t" -> <<"\\", "t">>
            [] OTHER -> <<Head(s)>>) \o QuoteChars(Tail(s))

AppendQuote(buf, s) == buf \o <<"\"">> \o QuoteChars(s) \o <<"\"">>

appendString(buf, s, quote) ==
    IF quote /\ needsQuoting(s) THEN AppendQuote(buf, s) ELSE buf \o s

WriteStringIf(buf, ok, s) == IF ok THEN buf \o <<s>> ELSE buf

---------------------------------------------------------------------------
(* Go slices of strings: a slice is [arr, len, cap], arr = 0 for nil; the  *)
(* backing array heap[arr] has cap elements.                               *)

NilSlice == [arr |-> 0, len |-> 0, cap |-> 0]

Elems(hp, s) == IF s.arr = 0 THEN <<>> ELSE SubSeq(hp[s.arr], 1, s.len)

(* the runtime's growslice for a slice of strings that gains one element:  *)
(* the capacity doubles (1, 2, 4, 8, ...)                                  *)
GrowCap(oldcap) == IF oldcap = 0 THEN 1 ELSE 2 * oldcap

(* an append that writes x over the last element of s *)
GoAppend_OverwriteLast(hp, s, x) ==
    IF s.len > 0
    THEN [heap |-> [hp EXCEPT ![s.arr][s.len] = x], slice |-> s]
    ELSE [heap |-> Append(hp, <<x>>),
          slice |-> [arr |-> Len(hp) + 1, len |-> 1, cap |-> 1]]

(* append(s, x): in place when there is spare capacity, otherwise into a   *)
(* new backing array.  Returns the new heap and the resulting slice.       *)
GoAppend(hp, s, x) ==
    IF s.len < s.cap
    THEN [heap |-> [hp EXCEPT ![s.arr][s.len + 1] = x],
          slice |-> [s EXCEPT !.len = s.len + 1]]
    ELSE LET ncap == GrowCap(s.cap)
             narr == [i \in 1..ncap |->
                         IF i <= s.len THEN hp[s.arr][i]
                         ELSE IF i = s.len + 1 THEN x ELSE <<>>]
         IN [heap |-> Append(hp, narr),
             slice |-> [arr |-> Len(hp) + 1, len |-> s.len + 1, cap |-> ncap]]

---------------------------------------------------------------------------
(* The rewrite functions (Options.ReplaceAttr) the model draws from.       *)
(* "nil" is no function.                                                   *)

BuiltinKeys == {TimeKey, LevelKey, SourceKey, MessageKey}

ReplaceFns == {"nil", "id", "dropAll", "dropBuiltin", "keepKey", "addDay", "timeStr"}

(* the string "timeStr" puts in the place of the time *)
TimeText == <<"a", " ", "b">>

ReplaceAttr(fn, groups, a) ==
    CASE fn = "id" -> a
      [] fn = "dropAll" -> EmptyAttr
      [] fn = "dropBuiltin" ->
            IF Len(groups) = 0 /\ a.key \in BuiltinKeys THEN EmptyAttr ELSE a
      [] fn = "keepKey" -> IF a.key # <<"k", "e", "y">> THEN EmptyAttr ELSE a
      [] fn = "addDay" ->
            IF Len(groups) = 0 /\ a.key = TimeKey /\ a.kind = "time"
            THEN TimeAttr(TimeKey, a.num + 1) ELSE a
      [] fn = "timeStr" ->
            IF Len(groups) = 0 /\ a.key = TimeKey
            THEN StringAttr(TimeKey, TimeText) ELSE a
      [] OTHER -> a

---------------------------------------------------------------------------
(* Rendering: handler.appendTime .. handler.appendTintError                *)

FormatTime(t, layout) == <<layout, ":", DigitChars[t + 1]>>

TimeString(t) == <<"T", DigitChars[t + 1], " ", "U", "T", "C">>

appendTime(h, buf, t) ==
    WriteStringIf(
        WriteStringIf(buf, ~h.noColor, ansiFaint) \o FormatTime(t, h.timeFormat),
        ~h.noColor, ansiReset)

delta(buf, val) ==
    IF val = 0 THEN buf ELSE AppendInt(buf \o <<"+">>, val)

appendLevel(h, buf, level) ==
    IF level < LevelInfo
    THEN delta(buf \o <<"D", "B", "G">>, level - LevelDebug)
    ELSE IF level < LevelWarn
    THEN WriteStringIf(
            delta(WriteStringIf(buf, ~h.noColor, ansiBrightGreen)
                      \o <<"I", "N", "F">>, level - LevelInfo),
            ~h.noColor, ansiReset)
    ELSE IF level < LevelError
    THEN WriteStringIf(
            delta(WriteStringIf(buf, ~h.noColor, ansiBrightYellow)
                      \o <<"W", "R", "N">>, level - LevelWarn),
            ~h.noColor, ansiReset)
    ELSE WriteStringIf(
            delta(WriteStringIf(buf, ~h.noColor, ansiBrightRed)
                      \o <<"E", "R", "R">>, level - LevelError),
            ~h.noColor, ansiReset)

(* the frame of a record with a program counter: file and line *)
Frame == [file |-> <<"d", "/", "f", ".", "g", "o">>, line |-> 7]
FrameSprint == <<"{">> \o Frame.file \o <<" ">> \o UDigits(Frame.line) \o <<"}">>

appendSource(h, buf, f) ==
    WriteStringIf(
        (WriteStringIf(buf, ~h.noColor, ansiFaint) \o <<"<">> \o f.file
            \o <<":">> \o UDigits(f.line) \o <<">">>),
        ~h.noColor, ansiReset)

appendKey(h, buf, key, groups) ==
    WriteStringIf(
        appendString(WriteStringIf(buf, ~h.noColor, ansiFaint),
                     h.groups \o groups \o key, TRUE) \o <<"=">>,
        ~h.noColor, ansiReset)

appendValue(buf, v, quote) ==
    CASE v.kind = "string" -> appendString(buf, v.str, quote)
      [] v.kind = "int" -> AppendInt(buf, v.num)
      [] v.kind = "time" -> appendString(buf, TimeString(v.num), quote)
      [] v.kind = "any" -> appendString(buf, v.str, quote)
      [] v.kind = "err" -> appendString(buf, v.str, quote)
      [] OTHER -> buf

(* an appendTintError that leaves out the keys of the enclosing groups *)
appendTintError_NoGroups(h, buf, err, groups) ==
    WriteStringIf(
        appendString(
            WriteStringIf(
                appendString(WriteStringIf(buf, ~h.noColor, ansiBrightRedFaint),
                             h.groups \o keyErr, TRUE) \o <<"=">>,
                ~h.noColor, ansiResetFaint),
            err, TRUE),
        ~h.noColor, ansiReset)

appendTintError(h, buf, err, groups) ==
    WriteStringIf(
        appendString(
            WriteStringIf(
                appendString(WriteStringIf(buf, ~h.noColor, ansiBrightRedFaint),
                             h.groups \o groups \o keyErr, TRUE) \o <<"=">>,
                ~h.noColor, ansiResetFaint),
            err, TRUE),
        ~h.noColor, ansiReset)

RECURSIVE appendAttr(_, _, _, _)
RECURSIVE appendAttrList(_, _, _, _)

appendAttr(h, buf, attr, groups) ==
    IF attr.key = <<>> THEN buf
    ELSE CASE attr.kind = "group" ->
                appendAttrList(h, buf, attr.grp, groups \o attr.key \o <<".">>)
           [] attr.kind = "err" ->
                appendTintError(h, buf, attr.str, groups) \o <<" ">>
           [] OTHER ->
                appendValue(appendKey(h, buf, attr.key, groups), attr, TRUE)
                    \o <<" ">>

appendAttrList(h, buf, attrs, groups) ==
    IF attrs = <<>> THEN buf
    ELSE appendAttrList(h, appendAttr(h, buf, Head(attrs), groups),
                        Tail(attrs), groups)

---------------------------------------------------------------------------
(* Options.NewHandler, handler.clone, handler.Enabled                      *)

defaultTimeFormat == "S"

NewHandler(opts) ==
    [attrs |-> <<>>, groups |-> <<>>, groupsSlice |-> NilSlice, w |-> 1,
     addSource |-> opts.AddSource, level |-> opts.Level,
     timeFormat |-> IF opts.TimeFormat = "" THEN defaultTimeFormat
                    ELSE opts.TimeFormat,
     noColor |-> opts.NoColor, replaceAttr |-> opts.ReplaceAttr]

(* clone copies every field but mu: the new handler has a mutex of its own *)
clone(h) ==
    [attrs |-> h.attrs, groups |-> h.groups, groupsSlice |-> h.groupsSlice,
     w |-> h.w, addSource |-> h.addSource, level |-> h.level,
     timeFormat |-> h.timeFormat, noColor |-> h.noColor,
     replaceAttr |-> h.replaceAttr]

Enabled(h, level) == level >= h.level

---------------------------------------------------------------------------
(* The first version's exported Handler: its fields are filled in lazily,  *)
(* by once.Do(h.init), on the first call of a method.                      *)

defaultOut == "os.Stderr"
defaultLvl == LevelInfo

init(H) ==
    [H EXCEPT !.Out = IF H.Out = "nil" THEN defaultOut ELSE H.Out,
              !.Level = IF H.Level < LevelDebug THEN defaultLvl ELSE H.Level,
              !.TimeFormat = IF H.TimeFormat = "" THEN defaultTimeFormat
                             ELSE H.TimeFormat]

OnceDoInit(H) == IF H.once THEN H ELSE [init(H) EXCEPT !.once = TRUE]

HandlerEnabled(H, level) == level >= OnceDoInit(H).Level

---------------------------------------------------------------------------
(* handler.Handle: the bytes assembled before the lock is taken            *)

RECURSIVE appendRecordAttrs(_, _, _, _)
appendRecordAttrs(h, gs, buf, attrs) ==
    IF attrs = <<>> THEN buf
    ELSE LET attr == IF h.replaceAttr # "nil"
                     THEN ReplaceAttr(h.replaceAttr, gs, Head(attrs))
                     ELSE Head(attrs)
         IN appendRecordAttrs(h, gs, appendAttr(h, buf, attr, <<>>), Tail(attrs))

HandleTime(h, gs, r) ==
    IF r.time = 0 THEN <<>>
    ELSE IF h.replaceAttr = "nil" THEN appendTime(h, <<>>, r.time) \o <<" ">>
    ELSE LET a == ReplaceAttr(h.replaceAttr, gs, TimeAttr(TimeKey, r.time))
         IN IF a.key = <<>> THEN <<>>
            ELSE IF a.kind = "time" THEN appendTime(h, <<>>, r.time) \o <<" ">>
            ELSE appendValue(<<>>, a, FALSE) \o <<" ">>

HandleLevel(h, gs, buf, r) ==
    IF h.replaceAttr = "nil" THEN appendLevel(h, buf, r.level) \o <<" ">>
    ELSE LET a == ReplaceAttr(h.replaceAttr, gs, IntAttr(LevelKey, r.level))
         IN IF a.key = <<>> THEN buf
            ELSE IF a.kind = "int" THEN appendLevel(h, buf, a.num) \o <<" ">>
            ELSE appendValue(buf, a, FALSE) \o <<" ">>

HandleSource(h, gs, buf, r) ==
    IF ~h.addSource \/ r.pc = 0 THEN buf
    ELSE IF h.replaceAttr = "nil" THEN appendSource(h, buf, Frame) \o <<" ">>
    ELSE LET a == ReplaceAttr(h.replaceAttr, gs, AnyAttr(SourceKey, FrameSprint))
         IN IF a.key = <<>> THEN buf
            ELSE appendValue(buf, a, FALSE) \o <<" ">>

(* a Handle that writes the message without passing it to the rewrite function *)
HandleMessage_NoRewrite(h, gs, buf, r) == buf \o r.msg \o <<" ">>

(* a Handle that writes no separator after the message *)
HandleMessage_NoSeparator(h, gs, buf, r) == buf \o r.msg

HandleMessage(h, gs, buf, r) ==
    IF h.replaceAttr = "nil" THEN buf \o r.msg \o <<" ">>
    ELSE LET a == ReplaceAttr(h.replaceAttr, gs, StringAttr(MessageKey, r.msg))
         IN IF a.key = <<>> THEN buf
            ELSE appendValue(buf, a, FALSE) \o <<" ">>

(* the calls of the rewrite function rep that Handle makes for the built-in *)
(* fields, in order: each with h.groupsSlice as its group list             *)
RepBuiltin(hp, h, r) ==
    LET gs == Elems(hp, h.groupsSlice)
        c(a) == <<[groups |-> gs, attr |-> a]>>
    IN IF h.replaceAttr = "nil" THEN <<>>
       ELSE (IF r.time = 0 THEN <<>> ELSE c(TimeAttr(TimeKey, r.time)))
            \o c(IntAttr(LevelKey, r.level))
            \o (IF ~h.addSource \/ r.pc = 0 THEN <<>>
                ELSE c(AnyAttr(SourceKey, FrameSprint)))
            \o c(StringAttr(MessageKey, r.msg))

(* the calls of rep that Handle makes in r.Attrs: one per attribute of the *)
(* record, whatever its kind, each with h.groupsSlice                      *)
RepAttrs(hp, h, r) ==
    IF h.replaceAttr = "nil" THEN <<>>
    ELSE [k \in 1..Len(r.attrs) |->
             [groups |-> Elems(hp, h.groupsSlice), attr |-> r.attrs[k]]]

HandleBuf(hp, h, r) ==
    LET gs == Elems(hp, h.groupsSlice)
        b1 == HandleTime(h, gs, r)
        b2 == HandleLevel(h, gs, b1, r)
        b3 == HandleSource(h, gs, b2, r)
        b4 == HandleMessage(h, gs, b3, r)
        b5 == IF Len(h.attrs) > 0 THEN b4 \o h.attrs ELSE b4
    IN appendRecordAttrs(h, gs, b5, r.attrs)

(* HandleLine without the last step: the line keeps its trailing space *)
HandleLine_NoNewline(buf) == buf

(* replace last space with newline *)
HandleLine(buf) == [buf EXCEPT ![Len(buf)] = "\n"]

(* the mutex a Handle call on handler i locks: the mu field of handler i *)
MutexOf(i) == i

(* a Handle that drops the error of Write *)
HandleResult_Swallow(err) == "nil"

(* what Handle returns after the Write call returned err *)
HandleResult(err) == err

---------------------------------------------------------------------------
(* handler.WithAttrs and handler.WithGroup: the handler they return        *)

RECURSIVE appendBoundAttrs(_, _, _, _)
appendBoundAttrs(h, gs, buf, attrs) ==
    IF attrs = <<>> THEN buf
    ELSE LET attr == IF h.replaceAttr # "nil"
                     THEN ReplaceAttr(h.replaceAttr, gs, Head(attrs))
                     ELSE Head(attrs)
         IN appendBoundAttrs(h, gs, appendAttr(h, buf, attr, <<>>), Tail(attrs))

(* a WithAttrs that renders its attributes without the rewrite function *)
WithAttrsHandler_NoRewrite(hp, h, attrs) ==
    [clone(h) EXCEPT !.attrs = h.attrs \o appendAttrList(h, <<>>, attrs, <<>>)]

WithAttrsHandler(hp, h, attrs) ==
    [clone(h) EXCEPT
        !.attrs = h.attrs \o appendBoundAttrs(h, Elems(hp, h.groupsSlice), <<>>, attrs)]

(* a WithGroup that records the group but leaves the key prefix alone *)
WithGroupHandler_NoPrefix(hp, h, name) ==
    [clone(h) EXCEPT !.groupsSlice = GoAppend(hp, h.groupsSlice, name).slice]

WithGroupHandler(hp, h, name) ==
    [clone(h) EXCEPT
        !.groups = h.groups \o name \o <<".">>,
        !.groupsSlice = GoAppend(hp, h.groupsSlice, name).slice]

WithGroupHeap(hp, h, name) == GoAppend(hp, h.groupsSlice, name).heap

---------------------------------------------------------------------------
(* Earlier versions of Handle (src/handler.go).  _v1 is the first version  *)
(* of the unexported handler: no options for colour or rewriting, levels   *)
(* looked up in a map.  _v2 is the version that introduced ReplaceAttr and *)
(* NoColor.  Both write the separating space before an attribute and end   *)
(* the line with WriteByte('\n').  In _v1 tintError is the type error      *)
(* itself and the key of Err is empty: Err(nil) is an attribute with an    *)
(* empty key and a nil value, no tintError.                                *)

levelStrings(level) ==
    CASE level = LevelDebug -> <<"D", "B", "G">>
      [] level = LevelInfo -> <<ansiBrightGreen, "I", "N", "F", ansiReset>>
      [] level = LevelWarn -> <<ansiBrightYellow, "W", "R", "N", ansiReset>>
      [] level = LevelError -> <<ansiBrightRed, "E", "R", "R", ansiReset>>
      [] OTHER -> <<>>

appendValue_v1(buf, v) == appendValue(buf, v, TRUE)

appendKey_v1(h, buf, key, groups) ==
    appendString(buf \o <<ansiFaint>>, h.groups \o groups \o key, TRUE)
        \o <<"=", ansiReset>>

appendTintError_v1(h, buf, err, groups) ==
    appendString(
        appendString(buf \o <<ansiBrightRedFaint>>,
                     h.groups \o groups \o keyErr, TRUE)
            \o <<"=", ansiResetFaint>>,
        err, TRUE) \o <<ansiReset>>

RECURSIVE appendAttr_v1(_, _, _, _)
RECURSIVE appendAttrList_v1(_, _, _, _)

appendAttr_v1(h, buf, attr, groups) ==
    CASE attr.kind = "group" ->
            appendAttrList_v1(h, buf, attr.grp, groups \o attr.key \o <<".">>)
      [] attr = ErrNil ->
            appendValue_v1(appendKey_v1(h, buf \o <<" ">>, <<>>, groups), EmptyAttr)
      [] attr.kind = "err" ->
            appendTintError_v1(h, buf \o <<" ">>, attr.str, groups)
      [] OTHER ->
            appendValue_v1(appendKey_v1(h, buf \o <<" ">>, attr.key, groups), attr)

appendAttrList_v1(h, buf, attrs, groups) ==
    IF attrs = <<>> THEN buf
    ELSE appendAttrList_v1(h, appendAttr_v1(h, buf, Head(attrs), groups),
                           Tail(attrs), groups)

HandleBuf_v1(h, r) ==
    appendAttrList_v1(h,
        <<ansiFaint>> \o FormatTime(r.time, h.timeFormat) \o <<ansiReset, " ">>
            \o levelStrings(r.level) \o <<" ">> \o r.msg \o h.attrs,
        r.attrs, <<>>) \o <<"\n">>

(* _ls is the version with Options.LevelStrings: a handler holds a map     *)
(* from levels to the strings to write for them, looked up by appendLevel  *)
(* before the built-in mnemonics.  A map is a function on the set of its   *)
(* keys; the nil map is the function on the empty set.                     *)
NilMap == <<>>

CustomLevelStrings == [l \in {LevelInfo} |-> <<"i", "n", "f", "o">>]

NewHandler_ls(opts) ==
    [attrs |-> <<>>, groups |-> <<>>, w |-> 1, level |-> opts.Level,
     levelStrings |-> opts.LevelStrings,
     timeFormat |-> IF opts.TimeFormat = "" THEN defaultTimeFormat
                    ELSE opts.TimeFormat]

(* the composite literal names no levelStrings: the field is the nil map *)
clone_ls(h) ==
    [attrs |-> h.attrs, groups |-> h.groups, w |-> h.w, level |-> h.level,
     levelStrings |-> NilMap, timeFormat |-> h.timeFormat]

appendLevel_ls(h, buf, level) ==
    IF level \in DOMAIN h.levelStrings
    THEN buf \o h.levelStrings[level]
    ELSE appendLevel([noColor |-> FALSE], buf, level)

WithAttrs_ls(h, attrs) ==
    IF Len(attrs) = 0 THEN h
    ELSE [clone_ls(h) EXCEPT !.attrs = h.attrs \o appendAttrList_v1(h, <<>>, attrs, <<>>)]

WithGroup_ls(h, name) ==
    IF name = <<>> THEN h
    ELSE [clone_ls(h) EXCEPT !.groups = @ \o name \o <<".">>]

HandleBuf_ls(h, r) ==
    appendAttrList_v1(h,
        appendLevel_ls(h,
            <<ansiFaint>> \o FormatTime(r.time, h.timeFormat) \o <<ansiReset, " ">>,
            r.level) \o <<" ">> \o r.msg \o h.attrs,
        r.attrs, <<>>) \o <<"\n">>

RECURSIVE appendAttr_v2(_, _, _, _)
RECURSIVE appendAttrList_v2(_, _, _, _)

appendAttr_v2(h, buf, attr, groups) ==
    IF attr.key = <<>> THEN buf
    ELSE CASE attr.kind = "group" ->
                appendAttrList_v2(h, buf, attr.grp, groups \o attr.key \o <<".">>)
           [] attr.kind = "err" ->
                appendTintError(h, buf \o <<" ">>, attr.str, groups)
           [] OTHER ->
                appendValue(appendKey(h, buf \o <<" ">>, attr.key, groups),
                            attr, TRUE)

appendAttrList_v2(h, buf, attrs, groups) ==
    IF attrs = <<>> THEN buf
    ELSE appendAttrList_v2(h, appendAttr_v2(h, buf, Head(attrs), groups),
                           Tail(attrs), groups)

(* h.replaceAttr(groups, a) when a rewrite function is set, a otherwise *)
Replaced(h, groups, a) ==
    IF h.replaceAttr # "nil" THEN ReplaceAttr(h.replaceAttr, groups, a) ELSE a

(* a.Value.String() *)
ValueString(a) == appendValue(<<>>, a, FALSE)

HandleTime_v2(h, r) ==
    LET a == Replaced(h, <<>>, TimeAttr(TimeKey, r.time))
    IN IF a.key = <<>> THEN <<>>
       ELSE (IF a.kind = "string" THEN ValueString(a)
             ELSE IF a.kind = "time" THEN appendTime(h, <<>>, a.num)
             ELSE appendValue(<<>>, a, TRUE)) \o <<" ">>

HandleLevel_v2(h, buf, r) ==
    LET a == Replaced(h, <<>>, IntAttr(LevelKey, r.level))
    IN IF a.key = <<>> THEN buf
       ELSE (IF a.kind = "string" THEN buf \o ValueString(a)
             ELSE IF a.kind = "int" THEN appendLevel(h, buf, r.level)
             ELSE appendValue(buf, a, TRUE)) \o <<" ">>

HandleMessage_v2(h, buf, r) ==
    buf \o ValueString(Replaced(h, <<>>, StringAttr(MessageKey, r.msg)))

RECURSIVE appendRecordAttrs_v2(_, _, _, _)
appendRecordAttrs_v2(h, gs, buf, attrs) ==
    IF attrs = <<>> THEN buf
    ELSE appendRecordAttrs_v2(h, gs,
             appendAttr_v2(h, buf, Replaced(h, gs, Head(attrs)), <<>>),
             Tail(attrs))

HandleBuf_v2(hp, h, r) ==
    LET b3 == HandleMessage_v2(h, HandleLevel_v2(h, HandleTime_v2(h, r), r), r)
        b4 == IF Len(h.attrs) > 0 THEN b3 \o h.attrs ELSE b3
    IN appendRecordAttrs_v2(h, Elems(hp, h.groupsSlice), b4, r.attrs) \o <<"\n">>

---------------------------------------------------------------------------
(* The pool of line buffers (newBuffer, buffer.Free).  A buffer is an      *)
(* identity; free is the set of buffers no call holds (lying in the pool,  *)
(* or not allocated yet: newBuffer hands out either, and the caller cannot *)
(* tell them apart), twice whether a buffer was ever returned while it was *)
(* free already.  At most one buffer per goroutine is in use, and one more *)
(* inside WithAttrs.                                                       *)

Buffers == 1 .. (Cardinality(Procs) + 1)

NoPool == [free |-> Buffers, twice |-> FALSE]

(* newBuffer: some buffer that no call holds.  The set of possible         *)
(* outcomes [pool, b].                                                     *)
newBuffer(pl) ==
    { [pool |-> [pl EXCEPT !.free = @ \ {b}], b |-> b] : b \in pl.free }

Free(pl, b) == [pl EXCEPT !.free = @ \cup {b}, !.twice = @ \/ b \in pl.free]

(* a call that returns without running its deferred buf.Free() *)
DeferredFree_Leak(pl, b) == pl

(* defer buf.Free(): runs when the call returns, on every path *)
DeferredFree(pl, b) == Free(pl, b)

---------------------------------------------------------------------------
(* The inputs the model draws from                                         *)

Record(t, level, msg, p, attrs) ==
    [time |-> t, level |-> level, msg |-> msg, pc |-> p, attrs |-> attrs]

InfoRecord == Record(1, LevelInfo, <<"m">>, 1, <<StringAttr(<<"k">>, <<"v">>)>>)

ErrorRecord == Record(0, LevelError, <<"m">>, 0, <<>>)

DebugRecord ==
    Record(2, LevelDebug, <<"t">>, 1,
           <<GroupAttr(<<"q">>, <<StringAttr(<<"c">>, <<"x", " ", "y">>)>>),
             Err(<<"f">>)>>)

Records == {InfoRecord, ErrorRecord, DebugRecord}

(* the records goroutine p logs: goroutine 1 any of them, the others one *)
RecordsOf(p) == IF p = 1 THEN Records ELSE {InfoRecord}

NoRecord == Record(0, 0, <<>>, 0, <<>>)

AttrLists ==
    { <<>>,
      <<StringAttr(<<"a">>, <<"1">>)>>,
      <<IntAttr(<<"b">>, 2), StringAttr(<<>>, <<"z">>)>> }

GroupNames == { <<>>, <<"g">> }

OptionSets ==
    { [AddSource |-> FALSE, Level |-> LevelInfo, TimeFormat |-> "",
       NoColor |-> TRUE, ReplaceAttr |-> "nil"],
      [AddSource |-> TRUE, Level |-> LevelDebug, TimeFormat |-> "K",
       NoColor |-> FALSE, ReplaceAttr |-> "id"],
      [AddSource |-> FALSE, Level |-> LevelInfo, TimeFormat |-> "",
       NoColor |-> TRUE, ReplaceAttr |-> "dropAll"],
      [AddSource |-> TRUE, Level |-> LevelWarn, TimeFormat |-> "",
       NoColor |-> TRUE, ReplaceAttr |-> "dropBuiltin"] }

WriteErrors == {"nil", "EIO"}

---------------------------------------------------------------------------
(* levels.go: LevelColor, LevelColorsMapping and LevelColors.  A           *)
(* *LevelColor is an index into the table objs of LevelColor objects, 0    *)
(* for nil.  A color.Attribute is modelled by the escape sequence it       *)
(* selects; color.New(c).SprintFunc() wraps its argument in that sequence  *)
(* and the reset sequence.                                                 *)

FgGreen == "ESC[32m"
FgYellow == "ESC[33m"
FgRed == "ESC[31m"

Sprint(c, name) == <<c>> \o name \o <<ansiReset>>

NewLevelColor(name, c) ==
    [Name |-> name, Color |-> c, serialized |-> <<>>, colored |-> FALSE]

(* LevelColor.String: the object after the call; the call returns its      *)
(* serialized field.  No statement assigns lc.colored.                     *)
String(lc, isColored) ==
    IF Len(lc.serialized) = 0 \/ lc.colored # isColored
    THEN [lc EXCEPT !.serialized = IF isColored THEN Sprint(lc.Color, lc.Name)
                                   ELSE lc.Name]
    ELSE lc

CopyLevelColor(lc) ==
    [Name |-> lc.Name, Color |-> lc.Color, serialized |-> lc.serialized,
     colored |-> lc.colored]

(* a LevelColorsMapping is a function from the set of its keys *)
min(lm) ==
    LET below == { k \in DOMAIN lm : k < 1000 }
    IN IF below = {} THEN 1000
       ELSE CHOOSE k \in below : \A j \in below : k <= j

size(lm, off) ==
    LET above == { k \in DOMAIN lm : k > 0 - 1000 }
        maxIdx == IF above = {} THEN 0 - 1000
                  ELSE CHOOSE k \in above : \A j \in above : k >= j
    IN off + maxIdx + 1

offset(lm) == IF min(lm) < 0 THEN 0 - min(lm) ELSE min(lm)

(* the keys of lm below k: the copy of lm[k] is object number objs + that  *)
(* many + 1                                                                *)
KeysBelow(lm, k) == Cardinality({ j \in DOMAIN lm : j < k })

(* LevelColorsMapping.LevelColors: the table of objects with the copies    *)
(* added, and the value returned                                           *)
LevelColors(objs, lm) ==
    LET off == offset(lm)
        n == size(lm, off)
        key(p) == CHOOSE k \in DOMAIN lm : KeysBelow(lm, k) = p - 1
    IN [objs |-> objs \o [p \in 1..Cardinality(DOMAIN lm) |->
                              CopyLevelColor(NewLevelColor(lm[key(p)].Name,
                                                           lm[key(p)].Color))],
        value |-> [levels |-> [x \in 1..n |->
                                  IF (x - 1 - off) \in DOMAIN lm
                                  THEN Len(objs) + KeysBelow(lm, x - 1 - off) + 1
                                  ELSE 0],
                   offset |-> off]]

NilColors == [levels |-> <<>>, offset |-> 0]

(* LevelColors.LevelColor: nil, an entry of the slice, a new zero          *)
(* LevelColor, or a panic of the index expression lc.levels[idx]           *)
LevelColor(lc, level) ==
    IF Len(lc.levels) = 0 THEN [kind |-> "nil", ptr |-> 0]
    ELSE LET idx == level + lc.offset
         IN IF Len(lc.levels) < idx THEN [kind |-> "zero", ptr |-> 0]
            ELSE IF idx < 0 \/ idx >= Len(lc.levels)
            THEN [kind |-> "panic", ptr |-> 0]
            ELSE IF lc.levels[idx + 1] = 0 THEN [kind |-> "nil", ptr |-> 0]
            ELSE [kind |-> "ptr", ptr |-> lc.levels[idx + 1]]

(* LevelColors.Copy: copy(lcCopy.levels, lc.levels) copies the pointers *)
Copy(lc) ==
    IF Len(lc.levels) = 0 THEN [levels |-> <<>>, offset |-> 0]
    ELSE [levels |-> [x \in 1..Len(lc.levels) |-> lc.levels[x]],
          offset |-> lc.offset]

(* the mappings the model draws from *)
Mappings ==
    { <<>>,
      [l \in {LevelInfo} |-> [Name |-> <<"I", "N", "F">>, Color |-> FgGreen]],
      [l \in {LevelDebug, LevelWarn} |->
          IF l = LevelDebug THEN [Name |-> <<"D", "B", "G">>, Color |-> FgGreen]
          ELSE [Name |-> <<"W", "R", "N">>, Color |-> FgYellow]],
      [l \in {LevelWarn, LevelError} |->
          IF l = LevelWarn THEN [Name |-> <<"W", "R", "N">>, Color |-> FgYellow]
          ELSE [Name |-> <<"E", "R", "R">>, Color |-> FgRed]] }

NoColorCall ==
    [op |-> "none", via |-> "none", level |-> 0, isColored |-> FALSE,
     res |-> [kind |-> "nil", ptr |-> 0], out |-> <<>>, otherBefore |-> <<>>]

---------------------------------------------------------------------------
(* The state machine: one handler made by NewHandler, handlers derived     *)
(* from it, and goroutines that call Handle on any of them.  call[p] is    *)
(* the Handle call of goroutine p: its handler and record, the buffer      *)
(* before (raw) and after (buf) the last step, the handler's open groups   *)
(* at the call, the calls of the rewrite function for the built-in fields  *)
(* and for the record's attributes, and the pool buffer it holds.          *)

NoCall ==
    [h |-> 0, r |-> NoRecord, raw |-> <<>>, buf |-> <<>>,
     groups |-> <<>>, repBuiltin |-> <<>>, repAttrs |-> <<>>, b |-> 0]
NoOrigin == [parent |-> 0, op |-> "NewHandler", attrs |-> <<>>, name |-> <<>>]
NoLast == [op |-> "none", recv |-> 0, res |-> 0, empty |-> FALSE]
NoLvl == [op |-> "none", level |-> 0, min |-> 0, out |-> <<>>, enabled |-> FALSE]
ZeroHandler == [Out |-> "nil", Level |-> 0, TimeFormat |-> "", once |-> FALSE]
NoColors ==
    [objs |-> <<>>, m |-> <<>>, made |-> FALSE, orig |-> NilColors, cpy |-> NilColors,
     copied |-> FALSE, last |-> NoColorCall]
NoOld == [ver |-> "none", r |-> NoRecord, ref |-> <<>>, buf |-> <<>>]

InitWith(opts) ==
    /\ handlers = <<NewHandler(opts)>>
    /\ heap = <<>>
    /\ mu = <<0>>
    /\ pc = [p \in Procs |-> "idle"]
    /\ call = [p \in Procs |-> NoCall]
    /\ ret = [p \in Procs |-> "none"]
    /\ writes = [p \in Procs |-> <<>>]
    /\ origin = <<NoOrigin>>
    /\ last = NoLast
    /\ lvl = [NoLvl EXCEPT !.min = opts.Level]
    /\ structHandler = [ZeroHandler EXCEPT !.Level = opts.Level]
    /\ pool = NoPool
    /\ old = NoOld
    /\ colors = NoColors

Init == \E opts \in OptionSets : InitWith(opts)

(* Handle up to the lock: a buffer is taken from the pool and the line is  *)
(* assembled in it; an empty buffer returns nil without a Write call, and  *)
(* the deferred Free runs.  A panic while the line is assembled leaves     *)
(* Handle through the deferred Free, without a Write call and without a    *)
(* result (ret is "panic").                                                *)
HandleStart(p, i, r) ==
    /\ pc[p] = "idle"
    /\ LET buf == HandleBuf(heap, handlers[i], r)
           c == [h |-> i, r |-> r, raw |-> buf, buf |-> buf,
                 groups |-> Elems(heap, handlers[i].groupsSlice),
                 repBuiltin |-> RepBuiltin(heap, handlers[i], r),
                 repAttrs |-> RepAttrs(heap, handlers[i], r), b |-> 0]
       IN \E nb \in newBuffer(pool) :
             IF Panicked(buf)
             THEN /\ call' = [call EXCEPT ![p] =
                                 [c EXCEPT !.raw = UpToPanic(buf),
                                           !.buf = UpToPanic(buf)]]
                  /\ ret' = [ret EXCEPT ![p] = "panic"]
                  /\ pc' = pc
                  /\ pool' = DeferredFree(nb.pool, nb.b)
             ELSE IF Len(buf) = 0
             THEN /\ call' = [call EXCEPT ![p] = c]
                  /\ ret' = [ret EXCEPT ![p] = "nil"]
                  /\ pc' = pc
                  /\ pool' = DeferredFree(nb.pool, nb.b)
             ELSE /\ call' = [call EXCEPT ![p] =
                                 [c EXCEPT !.buf = HandleLine(buf), !.b = nb.b]]
                  /\ ret' = [ret EXCEPT ![p] = "none"]
                  /\ pc' = [pc EXCEPT ![p] = "lock"]
                  /\ pool' = nb.pool
    /\ writes' = [writes EXCEPT ![p] = <<>>]
    /\ last' = NoLast
    /\ UNCHANGED <<handlers, heap, mu, origin, lvl, structHandler, old, colors>>

(* h.mu.Lock() and the entry into h.w.Write *)
HandleLock(p) ==
    /\ pc[p] = "lock"
    /\ mu[MutexOf(call[p].h)] = 0
    /\ mu' = [mu EXCEPT ![MutexOf(call[p].h)] = p]
    /\ writes' = [writes EXCEPT ![p] =
                     Append(@, [data |-> call[p].buf, err |-> "pending"])]
    /\ pc' = [pc EXCEPT ![p] = "write"]
    /\ last' = NoLast
    /\ UNCHANGED <<handlers, heap, call, ret, origin, lvl, structHandler, pool,
                   old, colors>>

(* a Handle whose Unlock is not deferred: it runs after a successful Write *)
(* only                                                                    *)
HandleWriteReturn_KeepLockOnError(p, err) ==
    /\ pc[p] = "write"
    /\ writes' = [writes EXCEPT ![p][Len(writes[p])].err = err]
    /\ ret' = [ret EXCEPT ![p] = HandleResult(err)]
    /\ mu' = IF err = "nil" THEN [mu EXCEPT ![MutexOf(call[p].h)] = 0] ELSE mu
    /\ pool' = DeferredFree(pool, call[p].b)
    /\ call' = [call EXCEPT ![p].b = 0]
    /\ pc' = [pc EXCEPT ![p] = "idle"]
    /\ last' = NoLast
    /\ UNCHANGED <<handlers, heap, origin, lvl, structHandler, old, colors>>

(* Write returns err; the deferred Unlock and Free run; Handle returns *)
HandleWriteReturn(p, err) ==
    /\ pc[p] = "write"
    /\ writes' = [writes EXCEPT ![p][Len(writes[p])].err = err]
    /\ ret' = [ret EXCEPT ![p] = HandleResult(err)]
    /\ mu' = [mu EXCEPT ![MutexOf(call[p].h)] = 0]
    /\ pool' = DeferredFree(pool, call[p].b)
    /\ call' = [call EXCEPT ![p].b = 0]
    /\ pc' = [pc EXCEPT ![p] = "idle"]
    /\ last' = NoLast
    /\ UNCHANGED <<handlers, heap, origin, lvl, structHandler, old, colors>>

(* a WithAttrs that makes a new handler whatever its argument *)
WithAttrs_AlwaysClone(i, attrs) ==
    /\ \E nb \in newBuffer(pool) :
          /\ pool' = DeferredFree(nb.pool, nb.b)
          /\ last' = [op |-> "WithAttrs", recv |-> i, res |-> Len(handlers) + 1,
                      empty |-> Len(attrs) = 0]
    /\ handlers' = Append(handlers, WithAttrsHandler(heap, handlers[i], attrs))
    /\ mu' = Append(mu, 0)
    /\ origin' = Append(origin, [parent |-> i, op |-> "WithAttrs",
                                  attrs |-> attrs, name |-> <<>>])
    /\ UNCHANGED <<heap, pc, call, ret, writes, lvl, structHandler, old, colors>>

(* WithAttrs: with a non-empty list, a buffer is taken from the pool, the  *)
(* attributes are rendered into it, its bytes are copied into the clone's  *)
(* attrs, and the deferred Free runs.                                      *)
WithAttrs(i, attrs) ==
    /\ IF Len(attrs) = 0
       THEN /\ last' = [op |-> "WithAttrs", recv |-> i, res |-> i,
                        empty |-> TRUE]
            /\ UNCHANGED <<handlers, mu, origin, pool>>
       ELSE /\ \E nb \in newBuffer(pool) :
                  /\ pool' = DeferredFree(nb.pool, nb.b)
                  /\ last' = [op |-> "WithAttrs", recv |-> i,
                              res |-> Len(handlers) + 1, empty |-> FALSE]
            /\ handlers' = Append(handlers, WithAttrsHandler(heap, handlers[i], attrs))
            /\ mu' = Append(mu, 0)
            /\ origin' = Append(origin, [parent |-> i, op |-> "WithAttrs",
                                          attrs |-> attrs, name |-> <<>>])
    /\ UNCHANGED <<heap, pc, call, ret, writes, lvl, structHandler, old, colors>>

WithGroup(i, name) ==
    /\ IF name = <<>>
       THEN /\ last' = [op |-> "WithGroup", recv |-> i, res |-> i,
                        empty |-> TRUE]
            /\ UNCHANGED <<handlers, heap, mu, origin>>
       ELSE /\ handlers' = Append(handlers, WithGroupHandler(heap, handlers[i], name))
            /\ heap' = WithGroupHeap(heap, handlers[i], name)
            /\ mu' = Append(mu, 0)
            /\ origin' = Append(origin, [parent |-> i, op |-> "WithGroup",
                                          attrs |-> <<>>, name |-> name])
            /\ last' = [op |-> "WithGroup", recv |-> i,
                        res |-> Len(handlers) + 1, empty |-> FALSE]
    /\ UNCHANGED <<pc, call, ret, writes, lvl, structHandler, pool, old, colors>>

(* Handle of the first version and of the version that introduced         *)
(* ReplaceAttr, on the handler made by NewHandler: the line is assembled   *)
(* in a pool buffer and written under the handler's mutex; old is the call *)
(* and the line written.                                                   *)
Handle_v1(r) ==
    /\ pc[1] = "idle" /\ mu[MutexOf(1)] = 0
    /\ \E nb \in newBuffer(pool) : pool' = DeferredFree(nb.pool, nb.b)
    /\ old' = [ver |-> "v1", r |-> r, ref |-> <<>>,
               buf |-> HandleBuf_v1(handlers[1], r)]
    /\ last' = NoLast
    /\ UNCHANGED <<handlers, heap, mu, pc, call, ret, writes, origin, lvl,
                   structHandler, colors>>

Handle_v2(r) ==
    /\ pc[1] = "idle" /\ mu[MutexOf(1)] = 0
    /\ \E nb \in newBuffer(pool) : pool' = DeferredFree(nb.pool, nb.b)
    /\ old' = LET buf == HandleBuf_v2(heap, handlers[1], r)
               IN [ver |-> "v2", r |-> r, ref |-> <<>>,
                   buf |-> IF Panicked(buf) THEN UpToPanic(buf) ELSE buf]
    /\ last' = NoLast
    /\ UNCHANGED <<handlers, heap, mu, pc, call, ret, writes, origin, lvl,
                   structHandler, colors>>

(* The _ls handler with the level, the layout and the stream of handler 1  *)
(* and custom level strings, and a handler derived from it, handle r: old  *)
(* holds the line of the derived handler, and as ref the line of the       *)
(* handler it was derived from.                                            *)
Handle_ls(r, attrs, name) ==
    /\ pc[1] = "idle" /\ mu[MutexOf(1)] = 0
    /\ \E nb \in newBuffer(pool) : pool' = DeferredFree(nb.pool, nb.b)
    /\ old' = LET h == NewHandler_ls([Level |-> handlers[1].level,
                                      TimeFormat |-> handlers[1].timeFormat,
                                      LevelStrings |-> CustomLevelStrings])
                   h2 == WithGroup_ls(WithAttrs_ls(h, attrs), name)
               IN [ver |-> "ls", r |-> r, ref |-> HandleBuf_ls(h, r),
                   buf |-> HandleBuf_ls(h2, r)]
    /\ last' = NoLast
    /\ UNCHANGED <<handlers, heap, mu, pc, call, ret, writes, origin, lvl,
                   structHandler, colors>>

(* m.LevelColors() for a mapping m *)
LevelColorsCall(m) ==
    /\ ~colors.made
    /\ colors' = LET made == LevelColors(colors.objs, m)
                  IN [colors EXCEPT !.objs = made.objs, !.m = m, !.made = TRUE,
                                    !.orig = made.value,
                                    !.last = [NoColorCall EXCEPT !.op = "LevelColors"]]
    /\ UNCHANGED handlerVars

(* the value made by LevelColors (via "orig") or its copy (via "copy") *)
ColorsVia(via) == IF via = "orig" THEN colors.orig ELSE colors.cpy
Other(via) == IF via = "orig" THEN "copy" ELSE "orig"

ColorsCopyCall ==
    /\ colors.made /\ ~colors.copied
    /\ colors' = [colors EXCEPT !.cpy = Copy(colors.orig), !.copied = TRUE,
                                  !.last = [NoColorCall EXCEPT !.op = "Copy"]]
    /\ UNCHANGED handlerVars

LevelColorCall(via, level) ==
    /\ colors.made /\ (via = "copy" => colors.copied)
    /\ colors' = [colors EXCEPT !.last =
                     [NoColorCall EXCEPT !.op = "LevelColor", !.via = via,
                                         !.level = level,
                                         !.res = LevelColor(ColorsVia(via), level)]]
    /\ UNCHANGED handlerVars

(* lc.LevelColor(level).String(isColored) for a level that has an entry:   *)
(* otherBefore is what the entry of that level in the other value held as  *)
(* its serialization before the call                                       *)
StringCall(via, level, isColored) ==
    /\ colors.made /\ (via = "copy" => colors.copied)
    /\ LET res == LevelColor(ColorsVia(via), level)
           other == LevelColor(ColorsVia(Other(via)), level)
       IN /\ res.kind = "ptr"
          /\ colors' =
                [colors EXCEPT
                    !.objs[res.ptr] = String(@, isColored),
                    !.last = [NoColorCall EXCEPT
                                 !.op = "String", !.via = via, !.level = level,
                                 !.isColored = isColored, !.res = res,
                                 !.out = String(colors.objs[res.ptr], isColored).serialized,
                                 !.otherBefore =
                                     IF other.kind = "ptr"
                                     THEN colors.objs[other.ptr].serialized
                                     ELSE <<>>]]
    /\ UNCHANGED handlerVars

(* the attribute lists bound by WithAttrs in Spec *)
BoundLists == { <<IntAttr(<<"b">>, 2), StringAttr(<<>>, <<"z">>)>> }

(* a derivation with a non-empty argument makes a handler: room for it *)
Room(max, arg) == arg = <<>> \/ Len(handlers) < max

Next ==
    \/ \E p \in Procs, i \in DOMAIN handlers :
          \E r \in RecordsOf(p) : HandleStart(p, i, r)
    \/ \E p \in Procs : HandleLock(p)
    \/ \E p \in Procs, err \in WriteErrors : HandleWriteReturn(p, err)
    \/ \E i \in DOMAIN handlers, attrs \in BoundLists :
          Room(MaxHandlers, attrs) /\ WithAttrs(i, attrs)
    \/ \E i \in DOMAIN handlers, name \in GroupNames \ {<<>>} :
          Room(MaxHandlers, name) /\ WithGroup(i, name)

Spec == Init /\ [][Next]_vars

---------------------------------------------------------------------------
(* SpecChain: a logger is built as a chain (each WithAttrs / WithGroup is  *)
(* called on the newest handler, also with an empty argument) and is then  *)
(* used by one goroutine.                                                  *)

Newest == Len(handlers)
Building == call[1].h = 0

NextChain ==
    \/ \E r \in Records : HandleStart(1, Newest, r)
    \/ HandleLock(1)
    \/ \E err \in WriteErrors : HandleWriteReturn(1, err)
    \/ \E attrs \in AttrLists :
          Building /\ Room(MaxChain, attrs) /\ WithAttrs(Newest, attrs)
    \/ \E name \in GroupNames :
          Building /\ Room(MaxChain, name) /\ WithGroup(Newest, name)

SpecChain == Init /\ [][NextChain]_vars

---------------------------------------------------------------------------
(* SpecDerive: handlers derived from any handler made so far, each group   *)
(* under a name of its own.                                                *)

GroupLetters == <<"a", "b", "c", "d", "e", "f", "g", "h", "i", "j">>
FreshName(n) == <<GroupLetters[n]>>

DeriveAttrs == <<StringAttr(<<"a">>, <<"1">>)>>

DeriveOptionSets == { o \in OptionSets : o.ReplaceAttr \in {"nil", "dropBuiltin"} }

InitDerive == \E opts \in DeriveOptionSets : InitWith(opts)

NextDerive ==
    \/ \E i \in DOMAIN handlers :
          Len(handlers) < MaxDerived /\ WithGroup(i, FreshName(Len(handlers) + 1))
    \/ \E i \in DOMAIN handlers :
          Len(handlers) < MaxDerived /\ WithAttrs(i, DeriveAttrs)

SpecDerive == InitDerive /\ [][NextDerive]_vars

---------------------------------------------------------------------------
(* SpecLevel: the level functions, applied to every level in range, on a   *)
(* handler configured with any minimum level in range.                     *)

Levels == (0 - MaxLevelAbs)..MaxLevelAbs

LevelOptionSets ==
    { [AddSource |-> FALSE, Level |-> l, TimeFormat |-> "", NoColor |-> c,
       ReplaceAttr |-> "nil"] : l \in Levels, c \in BOOLEAN }

InitLevel == \E opts \in LevelOptionSets : InitWith(opts)

EnabledCall(level) ==
    /\ lvl' = [lvl EXCEPT !.op = "Enabled", !.level = level, !.out = <<>>,
                          !.enabled = Enabled(handlers[1], level)]
    /\ UNCHANGED <<handlers, heap, mu, pc, call, ret, writes, origin, last,
                   structHandler, pool, old, colors>>

HandlerEnabledCall(level) ==
    /\ structHandler' = OnceDoInit(structHandler)
    /\ lvl' = [lvl EXCEPT !.op = "Handler.Enabled", !.level = level, !.out = <<>>,
                          !.enabled = HandlerEnabled(structHandler, level)]
    /\ UNCHANGED <<handlers, heap, mu, pc, call, ret, writes, origin, last,
                   pool, old, colors>>

AppendLevelCall(level) ==
    /\ lvl' = [lvl EXCEPT !.op = "appendLevel", !.level = level,
                          !.out = appendLevel(handlers[1], <<>>, level),
                          !.enabled = FALSE]
    /\ UNCHANGED <<handlers, heap, mu, pc, call, ret, writes, origin, last,
                   structHandler, pool, old, colors>>

NextLevel ==
    \/ \E level \in Levels : EnabledCall(level)
    \/ \E level \in Levels : HandlerEnabledCall(level)
    \/ \E level \in Levels : AppendLevelCall(level)

SpecLevel == InitLevel /\ [][NextLevel]_vars

---------------------------------------------------------------------------
(* SpecRender: one goroutine renders records with attributes of every      *)
(* shape (plain, empty key, anonymous group, named group, Err, every value *)
(* kind, strings that do and do not need quotes) on the handler made by    *)
(* NewHandler, on h.WithGroup("g"), and on either with attributes bound by *)
(* WithAttrs; or it renders the record with one of the earlier versions.   *)
(* A run renders one record: the line is a function of handler and record. *)

RECURSIVE SubLists(_)
SubLists(s) ==
    IF s = <<>> THEN {<<>>}
    ELSE LET rest == SubLists(Tail(s))
         IN rest \cup { <<Head(s)>> \o t : t \in rest }

RenderMaster ==
    << StringAttr(<<"a">>, <<"b">>),
       GroupAttr(<<>>, <<StringAttr(<<"c">>, <<"d">>)>>),
       StringAttr(<<"e">>, <<"f">>),
       StringAttr(<<>>, <<"z">>),
       GroupAttr(<<"q">>, <<StringAttr(<<"c">>, <<"x", " ", "y">>), Err(<<"f">>)>>) >>

RenderStrings ==
    { <<>>, <<"v">>, <<"x", " ", "y">>, <<"a", "=", "b">>, <<"\"">>, <<"\t">>,
      <<"\\">> }

keyKey == <<"k", "e", "y">>

(* errAttr := tint.Err(e); errAttr.Key = "error" *)
ErrKeyed == [Err(<<"f">>) EXCEPT !.key = <<"e", "r", "r", "o", "r">>]

RenderValues ==
    { StringAttr(keyKey, s) : s \in RenderStrings }
        \cup { IntAttr(keyKey, 7), TimeAttr(keyKey, 3),
               AnyAttr(keyKey, <<"<", "n", "i", "l", ">">>),
               AnyAttr(keyKey, <<"e">>), Err(<<"f">>),
               StringAttr(<<"x", " ", "y">>, <<"v">>), ErrKeyed, ErrNil }

RenderLists == SubLists(RenderMaster) \cup { <<v>> : v \in RenderValues }

RenderRecords == { Record(1, LevelInfo, <<"m">>, 1, attrs) : attrs \in RenderLists }

BindLists ==
    SubLists(<< StringAttr(<<"a">>, <<"b">>),
                GroupAttr(<<"q">>, <<StringAttr(<<"c">>, <<"d">>), Err(<<"f">>)>>),
                Err(<<"f">>) >>) \ {<<>>}

(* nothing rendered yet, by any version *)
RenderIdle == Building /\ old.ver = "none"

(* WithAttrs(a=b) and WithGroup(g) *)
DeriveCalls_ls ==
    { [attrs |-> <<StringAttr(<<"a">>, <<"b">>)>>, name |-> <<>>],
      [attrs |-> <<>>, name |-> <<"g">>] }

NextRender ==
    \/ \E r \in RenderRecords : RenderIdle /\ HandleStart(1, Newest, r)
    \/ HandleLock(1)
    \/ \E err \in WriteErrors : HandleWriteReturn(1, err)
    \/ RenderIdle /\ Len(handlers) = 1 /\ WithGroup(Newest, <<"g">>)
    \/ \E attrs \in BindLists :
          RenderIdle /\ origin[Newest].op # "WithAttrs" /\ WithAttrs(Newest, attrs)
    \/ \E r \in RenderRecords : RenderIdle /\ Len(handlers) = 1 /\ Handle_v1(r)
    \/ \E r \in RenderRecords : RenderIdle /\ Len(handlers) = 1 /\ Handle_v2(r)
    \/ \E r \in RenderRecords, d \in DeriveCalls_ls :
          RenderIdle /\ Len(handlers) = 1 /\ Handle_ls(r, d.attrs, d.name)

RenderOptionSets ==
    OptionSets \cup { [AddSource |-> FALSE, Level |-> LevelInfo, TimeFormat |-> "",
                       NoColor |-> TRUE, ReplaceAttr |-> "keepKey"],
                      [AddSource |-> FALSE, Level |-> LevelInfo, TimeFormat |-> "",
                       NoColor |-> TRUE, ReplaceAttr |-> "addDay"],
                      [AddSource |-> FALSE, Level |-> LevelInfo, TimeFormat |-> "",
                       NoColor |-> FALSE, ReplaceAttr |-> "timeStr"] }

InitRender == \E opts \in RenderOptionSets : InitWith(opts)

SpecRender == InitRender /\ [][NextRender]_vars

---------------------------------------------------------------------------
(* Properties of Handle (Spec)                                             *)

Finished(p) == call[p].h # 0 /\ pc[p] = "idle"

(* C1: the Write calls of concurrent Handle calls on handlers derived from *)
(* one NewHandler handler never overlap: at most one goroutine is inside   *)
(* Write at any time.                                                      *)
C1_WritesNeverOverlap ==
    Cardinality({p \in Procs : pc[p] = "write"}) <= 1

(* C3: a Handle call whose rendered line is non-empty makes exactly one    *)
(* Write call, and that call carries the whole line, which ends with its   *)
(* newline; no call ever makes two Write calls.                            *)
C3_ExactlyOneWholeLineWrite ==
    \A p \in Procs :
        /\ Len(writes[p]) <= 1
        /\ pc[p] = "lock" => writes[p] = <<>>
        /\ (pc[p] = "write" \/ (Finished(p) /\ Len(call[p].buf) > 0)) =>
              /\ Len(writes[p]) = 1
              /\ writes[p][1].data = call[p].buf
              /\ writes[p][1].data[Len(writes[p][1].data)] = "\n"
              /\ \A k \in 1..(Len(call[p].buf) - 1) : call[p].buf[k] # "\n"
              /\ call[p].raw[Len(call[p].raw)] = " "
              /\ writes[p][1].data =
                    SubSeq(call[p].raw, 1, Len(call[p].raw) - 1) \o <<"\n">>

C3_Witness ==
    \E p \in Procs :
        /\ Finished(p)
        /\ Len(writes[p]) = 1
        /\ writes[p][1].err = "nil"
        /\ Len(writes[p][1].data) > 1
        /\ call[p].r.attrs # <<>>

(* the rewrite function drops every field of record r on handler h *)
DropsEverything(hp, h, r) ==
    \/ h.replaceAttr = "dropAll"
    \/ /\ h.replaceAttr = "dropBuiltin"
       /\ Elems(hp, h.groupsSlice) = <<>>
       /\ r.attrs = <<>>

C5_ReturnsWriteError ==
    \A p \in Procs :
        /\ Finished(p) =>
              \/ writes[p] = <<>> /\ ret[p] = "nil"
              \/ Len(writes[p]) = 1 /\ ret[p] = writes[p][1].err
        /\ pc[p] \in {"lock", "write"} => ret[p] = "none"
        /\ ret[p] \in {"none", "nil"} \cup WriteErrors

C5_Witness ==
    \E p \in Procs :
        /\ Finished(p)
        /\ Len(writes[p]) = 1
        /\ writes[p][1].err = "EIO"
        /\ ret[p] = "EIO"

---------------------------------------------------------------------------
(* Properties of the level functions (SpecLevel)                           *)

(* C2: Enabled(L) is true exactly when L is at least the minimum level the *)
(* handler was configured with, custom levels below Debug included.        *)
C2_EnabledIffAtLeastMinimum ==
    lvl.op \in {"Enabled", "Handler.Enabled"} =>
        (lvl.enabled <=> lvl.level >= lvl.min)

AnsiCodes ==
    {ansiReset, ansiFaint, ansiResetFaint, ansiBrightRed, ansiBrightGreen,
     ansiBrightYellow, ansiBrightRedFaint}

Visible(s) == SelectSeq(s, LAMBDA c : c \notin AnsiCodes)

LevelMnemonic(level) ==
    IF level < LevelInfo THEN <<"D", "B", "G">>
    ELSE IF level < LevelWarn THEN <<"I", "N", "F">>
    ELSE IF level < LevelError THEN <<"W", "R", "N">>
    ELSE <<"E", "R", "R">>

LevelThreshold(level) ==
    IF level < LevelInfo THEN LevelDebug
    ELSE IF level < LevelWarn THEN LevelInfo
    ELSE IF level < LevelError THEN LevelWarn
    ELSE LevelError

SignedOffset(n) ==
    IF n = 0 THEN <<>>
    ELSE IF n > 0 THEN <<"+">> \o UDigits(n)
    ELSE <<"-">> \o UDigits(0 - n)

(* C10: the level segment is the mnemonic of the level's range followed by *)
(* the signed decimal offset from that mnemonic's threshold: +N for a      *)
(* positive offset, -N for a negative one, nothing for zero.               *)
C10_LevelSegment ==
    lvl.op = "appendLevel" =>
        Visible(lvl.out) =
            LevelMnemonic(lvl.level)
                \o SignedOffset(lvl.level - LevelThreshold(lvl.level))

---------------------------------------------------------------------------
(* Properties of WithAttrs and WithGroup (SpecDerive)                      *)

(* what handler h is: its bound-attribute bytes, group prefix, group list  *)
(* and options                                                             *)
View(hp, h) ==
    [attrs |-> h.attrs, groups |-> h.groups,
     groupsSlice |-> Elems(hp, h.groupsSlice), w |-> h.w,
     addSource |-> h.addSource, level |-> h.level,
     timeFormat |-> h.timeFormat, noColor |-> h.noColor,
     replaceAttr |-> h.replaceAttr]

C7_DerivedHandlersIndependent ==
    [][\A i \in DOMAIN handlers :
          View(heap', handlers'[i]) = View(heap, handlers[i])]_vars

---------------------------------------------------------------------------
(* Properties of chains of WithAttrs and WithGroup (SpecChain)             *)

(* C8: WithAttrs with an empty list and WithGroup with an empty name       *)
(* return the receiver itself: no handler is made and nothing changes, so  *)
(* repeating the call yields the same handler and the same output.         *)
C8_EmptyReturnsReceiver ==
    [][last'.empty =>
          /\ last'.res = last'.recv
          /\ handlers' = handlers
          /\ heap' = heap
          /\ \A r \in Records :
                HandleBuf(heap', handlers'[last'.res], r)
                    = HandleBuf(heap, handlers[last'.recv], r)]_vars

C8_Witness ==
    /\ last.empty
    /\ last.op = "WithGroup"
    /\ last.recv > 1
    /\ last.res = last.recv
    /\ origin[last.recv].op = "WithGroup"

(* the attributes attrs as handler h binds or emits them when the group    *)
(* prefix is prefix and the open groups are gs                             *)
KeyedUnder(h, prefix, gs, attrs) ==
    appendBoundAttrs([h EXCEPT !.groups = prefix], gs, <<>>, attrs)

Suffix(s, n) == IF n > Len(s) THEN <<"?">> ELSE SubSeq(s, Len(s) - n + 1, Len(s))

(* handler i is h.WithAttrs(A).WithGroup(g).WithAttrs(B) for some h *)
IsAttrsGroupAttrs(i) ==
    /\ origin[i].op = "WithAttrs"
    /\ origin[origin[i].parent].op = "WithGroup"
    /\ origin[origin[origin[i].parent].parent].op = "WithAttrs"

(* C9: for h2 = h.WithAttrs(A).WithGroup(g).WithAttrs(B) and a record with *)
(* attributes C, the line ends with A keyed under h's own group prefix,    *)
(* then B and C keyed under that prefix followed by g and a dot, in the    *)
(* order A, B, C.                                                          *)
C9_GroupAffectsLaterAttrsOnly ==
    \A i \in DOMAIN handlers :
        IsAttrsGroupAttrs(i) =>
            LET j == origin[i].parent
                k == origin[j].parent
                h == handlers[origin[k].parent]
                gsH == Elems(heap, h.groupsSlice)
                pfx == h.groups \o origin[j].name \o <<".">>
                bound == h.attrs
                            \o KeyedUnder(h, h.groups, gsH, origin[k].attrs)
                            \o KeyedUnder(h, pfx, Append(gsH, origin[j].name),
                                          origin[i].attrs)
            IN /\ handlers[i].attrs = bound
               /\ \A p \in Procs :
                     call[p].h = i =>
                         LET tail == bound \o KeyedUnder(h, pfx,
                                         Append(gsH, origin[j].name),
                                         call[p].r.attrs)
                         IN Suffix(call[p].raw, Len(tail)) = tail
               /\ ( /\ origin[k].parent = 1
                    /\ h.noColor /\ h.replaceAttr = "nil"
                    /\ origin[k].attrs = <<StringAttr(<<"a">>, <<"1">>)>>
                    /\ origin[i].attrs =
                          <<IntAttr(<<"b">>, 2), StringAttr(<<>>, <<"z">>)>>
                    /\ call[1].h = i
                    /\ call[1].r.attrs = <<StringAttr(<<"k">>, <<"v">>)>> ) =>
                      Suffix(call[1].raw, 16) =
                          <<"a", "=", "1", " ", "g", ".", "b", "=", "2", " ",
                            "g", ".", "k", "=", "v", " ">>

C9_Witness ==
    \E i \in DOMAIN handlers :
        /\ IsAttrsGroupAttrs(i)
        /\ handlers[origin[origin[origin[i].parent].parent].parent].groups # <<>>
        /\ call[1].h = i
        /\ Finished(1)
        /\ call[1].r.attrs # <<>>
        /\ handlers[i].replaceAttr = "id"
        /\ Len(writes[1]) = 1

---------------------------------------------------------------------------
(* Properties of the rewrite function's calls (Spec)                       *)

(* the calls a handler that walks into groups makes for attrs: one per     *)
(* leaf, the group list extended by the keys of the enclosing groups       *)
RECURSIVE LeafCalls(_, _)
LeafCalls(gs, attrs) ==
    IF attrs = <<>> THEN <<>>
    ELSE LET a == Head(attrs)
         IN (IF a.kind = "group"
             THEN LeafCalls(IF a.key = <<>> THEN gs ELSE Append(gs, a.key), a.grp)
             ELSE <<[groups |-> gs, attr |-> a]>>)
            \o LeafCalls(gs, Tail(attrs))

RewriteSet(p) == call[p].h # 0 /\ handlers[call[p].h].replaceAttr # "nil"

(* C12: for a record's attributes the rewrite function is called exactly   *)
(* once per leaf attribute, in attribute order, with the handler's open    *)
(* groups followed by the keys of the enclosing groups, and never with a   *)
(* group-kind attribute.                                                   *)
C12_RewritePerLeaf ==
    \A p \in Procs :
        RewriteSet(p) =>
            /\ call[p].repAttrs = LeafCalls(call[p].groups, call[p].r.attrs)
            /\ \A k \in DOMAIN call[p].repAttrs :
                  call[p].repAttrs[k].attr.kind # "group"

(* C13: every call of the rewrite function for a built-in field has an     *)
(* empty group list, also on a handler with open groups; so a rewrite that *)
(* drops the built-in keys under an empty group list leaves nothing of     *)
(* them in the line of a grouped handler either.                           *)
C13_BuiltinsGetNoGroups ==
    \A p \in Procs :
        RewriteSet(p) =>
            /\ \A k \in DOMAIN call[p].repBuiltin :
                  call[p].repBuiltin[k].groups = <<>>
            /\ handlers[call[p].h].replaceAttr = "dropBuiltin" =>
                  call[p].raw =
                      handlers[call[p].h].attrs
                          \o KeyedUnder(handlers[call[p].h],
                                        handlers[call[p].h].groups,
                                        call[p].groups, call[p].r.attrs)

---------------------------------------------------------------------------
(* Properties of the buffer pool (Spec)                                    *)

InFlight(p) == pc[p] \in {"lock", "write"}

(* C18: a buffer taken by Handle or WithAttrs is returned exactly once     *)
(* before the call returns, on every exit path, and no two calls in flight *)
(* hold the same buffer: a call in flight holds a buffer that is not in    *)
(* the pool and that no other call holds, a call that returned holds none, *)
(* every buffer no call in flight holds is back in the pool, and no buffer *)
(* was returned while it was in the pool already.                          *)
C18_BufferPrivateAndReturned ==
    /\ ~pool.twice
    /\ \A p \in Procs :
          IF InFlight(p)
          THEN /\ call[p].b \in Buffers \ pool.free
               /\ \A q \in Procs \ {p} : InFlight(q) => call[q].b # call[p].b
          ELSE call[p].b = 0
    /\ pool.free = Buffers \ { call[p].b : p \in Procs }

(* goroutine 1 is inside Write with its buffer while the call of goroutine *)
(* 2 has returned a write error, and a handler was made by WithAttrs       *)
C18_Witness ==
    /\ pc[1] = "write" /\ call[1].b \in Buffers
    /\ Finished(2) /\ ret[2] = "EIO" /\ call[2].b = 0
    /\ \E i \in DOMAIN origin : origin[i].op = "WithAttrs"

---------------------------------------------------------------------------
(* Properties of the rendering of attributes (SpecRender)                  *)

(* attrs with every group of empty key replaced by its children *)
RECURSIVE Inline(_)
Inline(attrs) ==
    IF attrs = <<>> THEN <<>>
    ELSE LET a == Head(attrs)
         IN (IF a.kind = "group"
             THEN (IF a.key = <<>> THEN Inline(a.grp)
                   ELSE <<[a EXCEPT !.grp = Inline(a.grp)]>>)
             ELSE <<a>>)
            \o Inline(Tail(attrs))

(* C14: a group with an empty key is transparent: the line is the one of   *)
(* the record with the group's children passed in place of the group; the  *)
(* attributes a=b, Group("", c=d), e=f render as a=b c=d e=f.              *)
C14_AnonymousGroupTransparent ==
    call[1].h # 0 =>
        /\ call[1].raw =
              HandleBuf(heap, handlers[call[1].h],
                        [call[1].r EXCEPT !.attrs = Inline(@)])
        /\ ( /\ handlers[call[1].h].noColor
             /\ handlers[call[1].h].replaceAttr = "nil"
             /\ call[1].r.attrs = SubSeq(RenderMaster, 1, 3) ) =>
               Suffix(call[1].raw, 12) =
                   <<"a", "=", "b", " ", "c", "=", "d", " ", "e", "=", "f", " ">>

(* what the claim requires at the end of a rendering of attrs when the     *)
(* last attribute is Err(e) for an error e, directly or as the last one    *)
(* of a chain of named groups: <prefix>err=<message> and the separator;    *)
(* empty otherwise                                                         *)
RECURSIVE ErrTail(_, _)
ErrTail(attrs, prefix) ==
    IF attrs = <<>> THEN <<>>
    ELSE LET a == attrs[Len(attrs)]
         IN IF a.kind = "err" /\ a.key = keyErr /\ a # ErrNil
            THEN prefix \o <<"e", "r", "r", "=">> \o a.str \o <<" ">>
            ELSE IF a.kind = "group" /\ a.key # <<>>
            THEN ErrTail(a.grp, prefix \o a.key \o <<".">>)
            ELSE <<>>

KeepsAttrs(h) == h.replaceAttr \in {"nil", "id", "dropBuiltin"}

(* C15: an Err attribute is rendered as <prefix>err=<message>, the prefix  *)
(* being the handler's group prefix followed by the dotted keys of the     *)
(* groups enclosing the attribute, in a record and in the attributes bound *)
(* by WithAttrs.                                                           *)
C15_ErrKeyedUnderGroups ==
    /\ (call[1].h # 0 /\ KeepsAttrs(handlers[call[1].h])) =>
          LET t == ErrTail(call[1].r.attrs, handlers[call[1].h].groups)
          IN Suffix(Visible(call[1].raw), Len(t)) = t
    /\ \A i \in DOMAIN handlers :
          (origin[i].op = "WithAttrs" /\ KeepsAttrs(handlers[i])) =>
              LET t == ErrTail(origin[i].attrs, handlers[origin[i].parent].groups)
              IN Suffix(Visible(handlers[i].attrs), Len(t)) = t

(* a record whose last attribute is Group(q, .., Err(f)) was written by a  *)
(* coloured handler made by WithGroup(g)                                   *)
C15_Witness ==
    /\ Finished(1) /\ Len(writes[1]) = 1
    /\ handlers[call[1].h].groups = <<"g", ".">>
    /\ ~handlers[call[1].h].noColor
    /\ ErrTail(call[1].r.attrs, <<"g", ".">>) =
          <<"g", ".", "q", ".", "e", "r", "r", "=", "f", " ">>

(* the strings the claim requires to be quoted *)
MustQuote(s) ==
    s = <<>> \/ \E i \in 1..Len(s) : s[i] \in {" ", "\t", "\n", "\"", "="}

Quoted(s) == IF MustQuote(s) THEN <<"\"">> \o QuoteChars(s) \o <<"\"">> ELSE s

(* C16: a key and a string value appear in the line as a quoted, escaped   *)
(* literal if and only if they are empty or contain whitespace, a double   *)
(* quote, an = or a non-printable character, and verbatim otherwise; an    *)
(* empty string value renders as key="".                                   *)
C16_QuotedIffNeeded ==
    ( /\ call[1].h # 0
      /\ KeepsAttrs(handlers[call[1].h])
      /\ Len(call[1].r.attrs) = 1
      /\ call[1].r.attrs[1].kind = "string"
      /\ call[1].r.attrs[1].key # <<>> ) =>
        LET a == call[1].r.attrs[1]
            t == Quoted(handlers[call[1].h].groups \o a.key) \o <<"=">>
                    \o Quoted(a.str) \o <<" ">>
        IN Suffix(Visible(call[1].raw), Len(t)) = t

---------------------------------------------------------------------------
(* The reference plain-text handler (slog.NewTextHandler of the standard   *)
(* library), for a record with the one attribute key=v and a rewrite       *)
(* function that drops every other field.                                  *)

(* a string is quoted when it is empty or a character needs it *)
TextNeedsQuoting(s) == s = <<>> \/ needsQuoting(s)

TextAppendString(buf, s) ==
    IF TextNeedsQuoting(s) THEN AppendQuote(buf, s) ELSE buf \o s

(* a time is written in the format RFC 3339 with milliseconds, unquoted *)
TextAppendValue(buf, v) ==
    CASE v.kind = "int" -> AppendInt(buf, v.num)
      [] v.kind = "time" -> buf \o FormatTime(v.num, "RFC3339Milli")
      [] OTHER -> TextAppendString(buf, v.str)

TextHandlerLine(a) ==
    TextAppendValue(TextAppendString(<<>>, a.key) \o <<"=">>, a) \o <<"\n">>

(* C17: without colour and with a rewrite function that drops every field *)
(* but the attribute key, the line for one attribute key=v is the line the *)
(* reference plain-text handler writes, for every kind of value.           *)
C17_SameAsTextHandler ==
    ( /\ call[1].h = 1
      /\ handlers[1].noColor /\ handlers[1].replaceAttr = "keepKey"
      /\ Len(call[1].r.attrs) = 1
      /\ call[1].r.attrs[1].key = keyKey ) =>
        call[1].buf = TextHandlerLine(call[1].r.attrs[1])

---------------------------------------------------------------------------
(* Binding attributes against passing them with the record (SpecRender)    *)

(* the line Handle completes from the buffer it assembled *)
LineOf(buf) == IF Len(buf) = 0 THEN buf ELSE HandleLine(buf)

(* C19: the line of h.WithAttrs(A).Handle(r) is the line of h.Handle(r')   *)
(* for r' = r with the attributes A followed by r's own, also with a       *)
(* rewrite function and with groups and Err attributes in A.               *)
C19_BoundLikePassed ==
    \A i \in DOMAIN handlers :
        (call[1].h = i /\ origin[i].op = "WithAttrs" /\ ret[1] # "panic") =>
            LET line == LineOf(HandleBuf(heap, handlers[origin[i].parent],
                               [call[1].r EXCEPT !.attrs = origin[i].attrs \o @]))
            IN /\ call[1].buf = line
               /\ \A k \in DOMAIN writes[1] : writes[1][k].data = line

(* a handler with a rewrite function and an open group, attributes bound   *)
(* on it that hold a group and Err attributes, and a record with           *)
(* attributes of its own written by the bound handler                      *)
C19_Witness ==
    /\ Finished(1) /\ Len(writes[1]) = 1
    /\ origin[call[1].h].op = "WithAttrs"
    /\ handlers[origin[call[1].h].parent].groups # <<>>
    /\ handlers[call[1].h].replaceAttr = "dropBuiltin"
    /\ Len(origin[call[1].h].attrs) = 3
    /\ Len(call[1].r.attrs) = 5

---------------------------------------------------------------------------
(* Dropped fields (SpecRender)                                             *)

(* attrs without the attributes that have an empty key and are no group *)
RECURSIVE WithoutAnonymous(_)
WithoutAnonymous(attrs) ==
    IF attrs = <<>> THEN <<>>
    ELSE LET a == Head(attrs)
         IN (IF a.kind = "group"
             THEN <<[a EXCEPT !.grp = WithoutAnonymous(a.grp)]>>
             ELSE IF a.key = <<>> THEN <<>> ELSE <<a>>)
            \o WithoutAnonymous(Tail(attrs))

Without(r) == [r EXCEPT !.attrs = WithoutAnonymous(@)]

(* C20: an attribute with an empty key that is not a group is dropped:     *)
(* nothing is written for it and the line is the one of the record without *)
(* that attribute, in every version of appendAttr.                         *)
C20_EmptyKeyDropped ==
    /\ call[1].h # 0 =>
          call[1].raw = HandleBuf(heap, handlers[call[1].h], Without(call[1].r))
    /\ old.ver = "v1" => old.buf = HandleBuf_v1(handlers[1], Without(old.r))
    /\ old.ver = "v2" => old.buf = HandleBuf_v2(heap, handlers[1], Without(old.r))

DropsBuiltins(h) == h.replaceAttr \in {"dropAll", "dropBuiltin", "keepKey"}

(* C11: a field for which the rewrite function returns an empty key is     *)
(* left out of the line together with its separator, the other fields are  *)
(* rendered unchanged, and Handle reports no error: with every built-in    *)
(* field dropped the line holds the attributes only (those the rewrite     *)
(* function keeps), with every field dropped nothing is written, and       *)
(* Handle returns nil unless Write failed.                                 *)
C11_DroppedFieldOmitted ==
    /\ ( /\ call[1].h # 0
         /\ DropsBuiltins(handlers[call[1].h])
         /\ call[1].groups = <<>> ) =>
           /\ call[1].raw =
                 handlers[call[1].h].attrs
                     \o KeyedUnder(handlers[call[1].h], <<>>, <<>>, call[1].r.attrs)
           /\ handlers[call[1].h].replaceAttr = "dropAll" => call[1].raw = <<>>
           /\ (Finished(1) /\ \A k \in DOMAIN writes[1] : writes[1][k].err = "nil")
                 => ret[1] = "nil"
    /\ (old.ver = "v2" /\ DropsBuiltins(handlers[1])) =>
           LET rest == appendRecordAttrs_v2(handlers[1], <<>>, <<>>, old.r.attrs)
           IN old.buf \in { rest \o <<"\n">>,
                            (IF rest = <<>> THEN rest ELSE Tail(rest)) \o <<"\n">>,
                            <<>> }

---------------------------------------------------------------------------
(* Err attributes with a changed key and with a nil error (SpecRender)     *)

(* C21: an attribute returned by Err whose key the caller changed to error *)
(* is rendered under that key, error=fail, with the current group prefix,  *)
(* not under the key err.                                                  *)
C21_ErrKeyOverrideHonoured ==
    ( /\ call[1].h # 0
      /\ KeepsAttrs(handlers[call[1].h])
      /\ call[1].r.attrs = <<ErrKeyed>> ) =>
        LET t == handlers[call[1].h].groups
                    \o <<"e", "r", "r", "o", "r", "=", "f", " ">>
        IN Suffix(Visible(call[1].raw), Len(t)) = t

(* C22: Handle of a record that carries Err(nil) does not crash: it        *)
(* returns the result of Write, and the line holds err=<nil>.              *)
C22_ErrNilDoesNotCrash ==
    ( /\ call[1].h # 0
      /\ KeepsAttrs(handlers[call[1].h])
      /\ call[1].r.attrs = <<ErrNil>> ) =>
        /\ ret[1] # "panic"
        /\ LET t == handlers[call[1].h].groups
                       \o <<"e", "r", "r", "=", "<", "n", "i", "l", ">", " ">>
           IN Suffix(Visible(call[1].raw), Len(t)) = t
        /\ Finished(1) =>
              /\ Len(writes[1]) = 1
              /\ ret[1] = writes[1][1].err

---------------------------------------------------------------------------
(* A rewritten time (SpecRender)                                           *)

(* the bytes of buf before its first space-terminated segment ends, for a  *)
(* time segment of n visible bytes                                         *)
Prefix(s, n) == SubSeq(s, 1, IF n < Len(s) THEN n ELSE Len(s))

(* C23: when the rewrite function replaces the time by another timestamp,  *)
(* the time segment shows that timestamp in the configured layout, and     *)
(* when it replaces the time by a string, the segment is that string as it *)
(* is.                                                                     *)
C23_RewrittenTimeShown ==
    \A i \in DOMAIN handlers :
        (call[1].h = i /\ handlers[i].groups = <<>> /\ call[1].r.time # 0) =>
            LET h == handlers[i]
                line == Visible(call[1].raw)
                shifted == FormatTime(call[1].r.time + 1, h.timeFormat) \o <<" ">>
                text == TimeText \o <<" ">>
            IN /\ h.replaceAttr = "addDay" =>
                      Prefix(line, Len(shifted)) = shifted
               /\ h.replaceAttr = "timeStr" =>
                      Prefix(line, Len(text)) = text

(* the second half of C23 alone: a time replaced by a string is written    *)
(* as that string                                                          *)
C23_StringWrittenVerbatim ==
    \A i \in DOMAIN handlers :
        ( /\ call[1].h = i /\ handlers[i].groups = <<>> /\ call[1].r.time # 0
          /\ handlers[i].replaceAttr = "timeStr" ) =>
            Prefix(call[1].raw, Len(TimeText) + 1) = TimeText \o <<" ">>

---------------------------------------------------------------------------
(* The identity rewrite function (SpecRender)                              *)

(* C25: a rewrite function that returns every attribute unchanged gives    *)
(* the line that no rewrite function gives, for every record and option    *)
(* set, with the source location and with colour as well.                  *)
C25_IdentityRewriteIsNoRewrite ==
    \A i \in DOMAIN handlers :
        (call[1].h = i /\ handlers[i].replaceAttr = "id" /\ ret[1] # "panic") =>
            call[1].raw =
                HandleBuf(heap, [handlers[i] EXCEPT !.replaceAttr = "nil"], call[1].r)

---------------------------------------------------------------------------
(* The byte the newline replaces (SpecRender)                              *)

(* C24: whenever Handle writes a line, the byte the newline replaces is a  *)
(* separator space: the assembled buffer, and every bound-attribute prefix *)
(* in it, ends with a space, and the written line is the buffer with that  *)
(* one space replaced, every other byte kept and nothing after the         *)
(* newline.                                                                *)
C24_NewlineReplacesSeparator ==
    /\ \A i \in DOMAIN handlers :
          handlers[i].attrs = <<>> \/ handlers[i].attrs[Len(handlers[i].attrs)] = " "
    /\ \A p \in Procs :
          (call[p].h # 0 /\ ret[p] # "panic" /\ call[p].raw # <<>>) =>
              LET raw == call[p].raw
                  n == Len(raw)
              IN /\ raw[n] = " "
                 /\ Len(call[p].buf) = n
                 /\ \A k \in 1..(n - 1) : call[p].buf[k] = raw[k]
                 /\ call[p].buf[n] = "\n"
                 /\ \A k \in DOMAIN writes[p] : writes[p][k].data = call[p].buf

C24_Witness ==
    /\ Finished(1)
    /\ Len(writes[1]) = 1
    /\ call[1].r.attrs = <<>>
    /\ handlers[call[1].h].attrs # <<>>
    /\ handlers[call[1].h].replaceAttr = "nil"
    /\ Suffix(call[1].raw, Len(handlers[call[1].h].attrs)) = handlers[call[1].h].attrs

---------------------------------------------------------------------------
(* What a derived handler shares with its parent (SpecRender)              *)

(* the bytes of a line through its second separator: the time and the      *)
(* level segment                                                           *)
RECURSIVE ThroughSpaces(_, _)
ThroughSpaces(line, n) ==
    IF n = 0 \/ line = <<>> THEN <<>>
    ELSE <<Head(line)>>
            \o ThroughSpaces(Tail(line), IF Head(line) = " " THEN n - 1 ELSE n)

ThroughLevel(line) == ThroughSpaces(line, 2)

(* C26: a handler returned by WithAttrs or WithGroup has the stream, the   *)
(* minimum level, the layout, the colour flag, the source flag, the        *)
(* rewrite function and the custom level strings of its parent, only the   *)
(* bound attributes or the groups differ, so the time and level segments   *)
(* of a record are the same through parent and child.                      *)
C26_DerivedSharesConfiguration ==
    /\ \A i \in DOMAIN handlers :
          origin[i].parent # 0 =>
              LET h == handlers[i]
                  p == handlers[origin[i].parent]
              IN /\ h.w = p.w /\ h.level = p.level
                 /\ h.timeFormat = p.timeFormat /\ h.noColor = p.noColor
                 /\ h.addSource = p.addSource /\ h.replaceAttr = p.replaceAttr
                 /\ origin[i].op = "WithAttrs" =>
                        h.groups = p.groups /\ h.groupsSlice = p.groupsSlice
                 /\ origin[i].op = "WithGroup" => h.attrs = p.attrs
    /\ old.ver = "ls" => ThroughLevel(old.buf) = ThroughLevel(old.ref)

(* the part of C26 about the latest version alone *)
C26_LatestCloneCopiesOptions ==
    \A i \in DOMAIN handlers :
        origin[i].parent # 0 =>
            LET h == handlers[i]
                p == handlers[origin[i].parent]
            IN /\ h.w = p.w /\ h.level = p.level
               /\ h.timeFormat = p.timeFormat /\ h.noColor = p.noColor
               /\ h.addSource = p.addSource /\ h.replaceAttr = p.replaceAttr

---------------------------------------------------------------------------
(* SpecLive: goroutines that log through a handler and a handler derived   *)
(* from it, on a stream whose Write calls return, with or without an       *)
(* error.  A goroutine blocked in mu.Lock gets the mutex: sync.Mutex hands *)
(* it to a waiter that has waited long enough (starvation mode), so a      *)
(* Lock that is enabled again and again is taken (strong fairness); a      *)
(* Write call that was made returns (weak fairness).                       *)

LiveOptionSets == { o \in OptionSets : o.ReplaceAttr = "nil" }

InitLive == \E opts \in LiveOptionSets : InitWith(opts)

NextLive ==
    \/ \E p \in Procs, i \in DOMAIN handlers : HandleStart(p, i, InfoRecord)
    \/ \E p \in Procs : HandleLock(p)
    \/ \E p \in Procs, err \in WriteErrors : HandleWriteReturn(p, err)
    \/ Room(MaxHandlers, <<"g">>) /\ WithGroup(1, <<"g">>)

Fairness ==
    \A p \in Procs :
        /\ SF_vars(HandleLock(p))
        /\ WF_vars(\E err \in WriteErrors : HandleWriteReturn(p, err))

SpecLive == InitLive /\ [][NextLive]_vars /\ Fairness

(* C27: every Handle call returns, given that the Write calls return, and  *)
(* the mutex is held only by a call that is inside Write, whether earlier  *)
(* writes succeeded or failed: a call made after a failed write, on the    *)
(* same or on a derived handler, takes the lock and writes.                *)
C27_HandleReturnsLockReleased ==
    /\ [](\A i \in DOMAIN mu :
             mu[i] # 0 => pc[mu[i]] = "write" /\ MutexOf(call[mu[i]].h) = i)
    /\ \A p \in Procs : (pc[p] = "lock") ~> (pc[p] = "write")
    /\ \A p \in Procs : (pc[p] = "write") ~> (pc[p] = "idle" /\ ret[p] \in WriteErrors)

(* a call failed, and a later call on the same handler holds the lock and  *)
(* is writing                                                              *)
C27_Witness ==
    \E p \in Procs, q \in Procs :
        /\ p # q
        /\ Finished(p) /\ ret[p] = "EIO"
        /\ Len(writes[p]) = 1 /\ writes[p][1].err = "EIO"
        /\ pc[q] = "write" /\ call[q].h = call[p].h
        /\ mu[MutexOf(call[q].h)] = q

---------------------------------------------------------------------------
(* SpecColors: a LevelColors value made from a mapping, a copy of it, and  *)
(* LevelColor and String calls through both.                               *)

InitColors == \E opts \in LiveOptionSets : InitWith(opts)

NextColors ==
    \/ \E m \in Mappings : LevelColorsCall(m)
    \/ ColorsCopyCall
    \/ \E via \in {"orig", "copy"}, level \in Levels : LevelColorCall(via, level)
    \/ \E via \in {"orig", "copy"}, level \in Levels, isColored \in BOOLEAN :
          StringCall(via, level, isColored)

SpecColors == InitColors /\ [][NextColors]_vars

(* C28: String(colored) returns the name wrapped in the colour when        *)
(* colored is true and the plain name when it is false, whatever String    *)
(* calls came before on the same LevelColor.                               *)
C28_StringFollowsArgument ==
    colors.last.op = "String" =>
        LET lc == colors.objs[colors.last.res.ptr]
        IN colors.last.out = IF colors.last.isColored THEN Sprint(lc.Color, lc.Name)
                             ELSE lc.Name

(* C29: m.LevelColors().LevelColor(L) is an entry with the name and the    *)
(* colour m maps L to when L is a key of m, and nil when it is not; the    *)
(* index expression never panics.                                          *)
C29_LevelColorFindsMapped ==
    (colors.last.op = "LevelColor" /\ colors.last.via = "orig") =>
        LET res == colors.last.res
            L == colors.last.level
        IN IF L \in DOMAIN colors.m
           THEN /\ res.kind = "ptr"
                /\ colors.objs[res.ptr].Name = colors.m[L].Name
                /\ colors.objs[res.ptr].Color = colors.m[L].Color
           ELSE res.kind = "nil"

(* the part of C29 about the keys of the mapping alone *)
C29_MappedLevelFound ==
    ( /\ colors.last.op = "LevelColor" /\ colors.last.via = "orig"
      /\ colors.last.level \in DOMAIN colors.m ) =>
        /\ colors.last.res.kind = "ptr"
        /\ colors.objs[colors.last.res.ptr].Name = colors.m[colors.last.level].Name
        /\ colors.objs[colors.last.res.ptr].Color = colors.m[colors.last.level].Color

(* C30: the value Copy returns is independent of the original: a String    *)
(* call on an entry reached through one of them leaves the serialization   *)
(* of the entry of the same level in the other as it was.                  *)
C30_CopyIndependent ==
    colors.last.op = "String" =>
        LET other == LevelColor(ColorsVia(Other(colors.last.via)), colors.last.level)
        IN other.kind = "ptr" =>
              colors.objs[other.ptr].serialized = colors.last.otherBefore

====
